---- MODULE Spec2Model ----
(***************************************************************************)
(* Savitzky-Golay temperature smoothing (temperature_smoothing.py).        *)
(*                                                                         *)
(* Units.  Times are integers in centiseconds (REPORT_TIME = 0.300 s is    *)
(* 30).  Temperatures are integers in hundredths of a degree, so that      *)
(* round(x, 2) of the source is rounding to an integer.  Real arithmetic   *)
(* is exact: a smoothed value is kept as a numerator over the common       *)
(* denominator coeff_den of the filter coefficients.  The source computes  *)
(* in IEEE doubles; rounding error of the doubles (for instance of the     *)
(* quotient smooth_time / REPORT_TIME, or of numpy's pinv) is not part of  *)
(* this model.                                                             *)
(***************************************************************************)
EXTENDS Integers, Sequences, FiniteSets, TLC

VARIABLES
    pc,              \* "start", "constructed", or "TypeError" (line 33 raised)
    args,            \* arguments of the constructor call: [order, smooth_time]
    frame_length,    \* SavitzkyGolaySmoother.frame_length
    window_length,   \* SavitzkyGolaySmoother.window_length
    coeff_m,         \* SavitzkyGolaySmoother.coeff_m, numerators over coeff_den
    coeff_den,       \* common (positive) denominator of coeff_m
    values,          \* SavitzkyGolaySmoother._values, oldest first
    ret,             \* value returned by the latest smoother call (<<>> is None);
                     \* smooth() returns numerators over coeff_den
    fed,             \* history: [init |-> fill value, xs |-> updates since then]
    last_temp,       \* PrinterSensorSmoothed.last_temp
    min_temp,        \* PrinterSensorSmoothed.min_temp
    max_temp,        \* PrinterSensorSmoothed.max_temp
    callback_set,    \* setup_callback has stored temperature_callback
    source,          \* the object lookup_object(sensor_name) returned
    unsmoothed_sensor, \* "None" or "sensor"
    events,          \* host events delivered so far, in order
    timer,           \* waketime of temperature_update_timer (NEVER or a time)
    now,             \* the reactor's monotonic clock
    tick             \* what the latest _temperature_update_event did

smoother_vars == <<pc, args, frame_length, window_length, coeff_m, coeff_den,
                   values, ret, fed>>
sensor_vars == <<last_temp, min_temp, max_temp, callback_set, source,
                 unsmoothed_sensor, events, timer, now, tick>>
vars == <<pc, args, frame_length, window_length, coeff_m, coeff_den, values,
          ret, fed, last_temp, min_temp, max_temp, callback_set, source,
          unsmoothed_sensor, events, timer, now, tick>>

(***************************************************************************)
(* Program constants and bounds of the model.                              *)
(***************************************************************************)
REPORT_TIME == 30

\* reactor.NOW and reactor.NEVER of the host's reactor
NOW == 0
NEVER == 999999

MaxOrder == 2
MaxSmoothTime == 210
MaxUpdates == 5
MaxTime == 100
MaxLatency == 1

\* Temperatures fed to the filter (hundredths of a degree): 0, 10.00, 20.00,
\* 25.00 and 26.00 degrees.
Temps == {0, 1000, 2000, 2500, 2600}

\* Constructor arguments explored by each specification.
Orders == 0 .. MaxOrder
WindowArgs == {<<o, st>> : o \in Orders, st \in 1 .. MaxSmoothTime}
CoreArgs == {<<o, st>> : o \in Orders, st \in {60, 100}}
SensorArgs == {<<1, 60>>, <<2, 60>>, <<2, 100>>}

\* Readings of the wrapped sensor: 0, 20.00 and 26.00 degrees.
Readings == {0, 2000, 2600}

\* Limits handed to setup_minmax: 10.00 and 25.00 degrees.
MinMaxArgs == {<<1000, 2500>>}

\* What lookup_object(sensor_name) may return: an object without get_status,
\* one whose status has no "temperature", one whose status has it.
Sources == {[looked_up |-> TRUE, get_status |-> g, temperature |-> t] :
                g \in BOOLEAN, t \in BOOLEAN}

(***************************************************************************)
(* Arithmetic helpers.                                                     *)
(***************************************************************************)
Abs(x) == IF x < 0 THEN -x ELSE x

Max(a, b) == IF a >= b THEN a ELSE b

\* math.ceil(a / b) for a >= 0, b > 0
Ceil(a, b) == (a + b - 1) \div b

RECURSIVE Pow(_, _)
Pow(k, i) == IF i = 0 THEN 1 ELSE k * Pow(k, i - 1)

RECURSIVE GCD(_, _)
GCD(a, b) == IF b = 0 THEN Abs(a) ELSE GCD(b, a % Abs(b))

RECURSIVE SeqSum(_)
SeqSum(s) == IF s = <<>> THEN 0 ELSE Head(s) + SeqSum(Tail(s))

RECURSIVE SeqGCD(_)
SeqGCD(s) == IF s = <<>> THEN 0 ELSE GCD(Head(s), SeqGCD(Tail(s)))

Reverse(s) == [i \in 1 .. Len(s) |-> s[Len(s) + 1 - i]]

RemoveAt(s, i) == [j \in 1 .. Len(s) - 1 |-> IF j < i THEN s[j] ELSE s[j + 1]]

\* round(num / den) to the nearest integer, ties to even (Python's round)
RoundHalfEven(num, den) ==
    LET q == num \div den
        r == num % den
    IN IF 2 * r < den THEN q
       ELSE IF 2 * r > den THEN q + 1
       ELSE IF q % 2 = 0 THEN q ELSE q + 1

(***************************************************************************)
(* SavitzkyGolaySmoother.__init__: window derivation (lines 23-36).        *)
(***************************************************************************)
FrameLengthNoOdd(order, smooth_time) ==
    Max(order, Ceil(smooth_time, REPORT_TIME))

FrameLength(order, smooth_time) ==
    LET n == Max(order, Ceil(smooth_time, REPORT_TIME))
    IN IF n % 2 = 0 THEN n + 1 ELSE n

TooShortOffByOne(fl, order) == fl < order + 1

TooShort(fl, order) == fl < order + 2

WindowLength(fl) == (fl - 1) \div 2

(***************************************************************************)
(* coeff_m (lines 42-49): row 0 of the pseudo-inverse of the design matrix *)
(* M[k][i] = k^i, k = -window_length .. window_length, i = 0 .. order.     *)
(* M has full column rank whenever frame_length >= order + 2, so           *)
(* pinv(M) = (M^T M)^-1 M^T and row 0 is                                   *)
(*   c_k = (1 / det G) * SUM_j adj(G)[0][j] * k^j,   G = M^T M,            *)
(* computed here with cofactors over the integers and reduced to lowest    *)
(* terms.                                                                  *)
(***************************************************************************)
DesignMatrix(order, wl) ==
    [r \in 1 .. 2 * wl + 1 |-> [i \in 0 .. order |-> Pow(r - wl - 1, i)]]

\* the one element of a singleton set (binds a value once, where a LET
\* definition would be evaluated again at every use)
Only(S) == CHOOSE x \in S : TRUE

\* G[i][j] = SUM_k k^(i+j)
Gram(order, wl) ==
    Only({[i \in 0 .. order |-> [j \in 0 .. order |->
                SeqSum([r \in 1 .. 2 * wl + 1 |-> M[r][i] * M[r][j]])]] :
          M \in {DesignMatrix(order, wl)}})

\* determinant of the submatrix of G on the index sequences rows x cols
RECURSIVE Det(_, _, _)
Det(G, rows, cols) ==
    IF rows = <<>> THEN 1
    ELSE SeqSum([c \in 1 .. Len(cols) |->
            (IF c % 2 = 1 THEN 1 ELSE -1) * G[Head(rows)][cols[c]]
                * Det(G, Tail(rows), RemoveAt(cols, c))])

\* row 0 of G^-1 M^T as numerators over det G
PinvRow0(G, order, wl) ==
    LET idx == [i \in 1 .. order + 1 |-> i - 1]
        \* adj(G)[0][j] = (-1)^j * minor of G without row j and column 0
        adj0 == [j \in 0 .. order |->
                    (IF j % 2 = 0 THEN 1 ELSE -1)
                        * Det(G, RemoveAt(idx, j + 1), Tail(idx))]
    IN [num |-> [r \in 1 .. 2 * wl + 1 |->
                    SeqSum([j \in 1 .. order + 1 |->
                        adj0[j - 1] * Pow(r - wl - 1, j - 1)])],
        den |-> Det(G, idx, idx)]

\* a fraction vector in lowest terms, with a positive denominator
Reduced(c) ==
    LET g == GCD(SeqGCD(c.num), c.den)
        s == IF c.den < 0 THEN -g ELSE g
    IN [num |-> [r \in 1 .. Len(c.num) |-> c.num[r] \div s],
        den |-> c.den \div s]

CoeffMUnnormalised(order, wl) ==
    [num |-> [r \in 1 .. 2 * wl + 1 |-> 1], den |-> 2 * wl]

CoeffM(order, wl) ==
    Only({Reduced(c) : c \in {PinvRow0(G, order, wl) : G \in {Gram(order, wl)}}})

Tile(temp, n) == [i \in 1 .. n |-> temp]

\* The constructor, on the smoother's own state.
SmootherInit(order, smooth_time) ==
    /\ pc = "start"
    /\ args' = [order |-> order, smooth_time |-> smooth_time]
    /\ LET fl == FrameLength(order, smooth_time)
           wl == WindowLength(fl)
       IN \/ /\ TooShort(fl, order)
             /\ pc' = "TypeError"
             /\ UNCHANGED <<frame_length, window_length, coeff_m, coeff_den,
                            values, ret, fed>>
          \/ /\ ~TooShort(fl, order)
             /\ pc' = "constructed"
             /\ frame_length' = fl
             /\ window_length' = wl
             /\ values' = Tile(0, fl)
             /\ \E c \in {CoeffM(order, wl)} :
                   /\ coeff_m' = c.num
                   /\ coeff_den' = c.den
             /\ fed' = [init |-> 0, xs |-> <<>>]
             /\ UNCHANGED ret

\* nothing looked up yet
NoSource == [looked_up |-> FALSE, get_status |-> FALSE, temperature |-> FALSE]

\* no _temperature_update_event has run yet
NoTick == [n |-> 0, error |-> "none", eventtime |-> 0, smoothed |-> 0,
           shutdowns |-> <<>>, callbacks |-> <<>>, measured_time |-> 0,
           ret |-> 0]

Init ==
    /\ pc = "start"
    /\ args = [order |-> 0, smooth_time |-> 0]
    /\ frame_length = 0
    /\ window_length = 0
    /\ coeff_m = <<>>
    /\ coeff_den = 1
    /\ values = <<>>
    /\ ret = <<>>
    /\ fed = [init |-> 0, xs |-> <<>>]
    /\ last_temp = 0
    /\ min_temp = 0
    /\ max_temp = 0
    /\ callback_set = FALSE
    /\ source = NoSource
    /\ unsmoothed_sensor = "None"
    /\ events = <<>>
    /\ timer = NEVER
    /\ now = 0
    /\ tick = NoTick

Construct ==
    /\ \E a \in WindowArgs : SmootherInit(a[1], a[2])
    /\ UNCHANGED sensor_vars

NextWindow == Construct

SpecWindow == Init /\ [][NextWindow]_vars

(***************************************************************************)
(* reset and update (lines 51-56).                                         *)
(***************************************************************************)
ShiftInOverwriteLast(vals, temp) == [vals EXCEPT ![Len(vals)] = temp]

\* _values[:-1] = _values[1:]; _values[-1] = temp
ShiftIn(vals, temp) ==
    [i \in 1 .. Len(vals) |-> IF i < Len(vals) THEN vals[i + 1] ELSE temp]

SmootherReset(temp) ==
    /\ values' = Tile(temp, frame_length)
    /\ UNCHANGED <<pc, args, frame_length, window_length, coeff_m, coeff_den>>

SmootherUpdate(temp) ==
    /\ values' = ShiftIn(values, temp)
    /\ UNCHANGED <<pc, args, frame_length, window_length, coeff_m, coeff_den>>

(***************************************************************************)
(* smooth (lines 58-72).                                                   *)
(***************************************************************************)
PadLeftNoReverse(vals, wl) ==
    [j \in 1 .. wl |-> vals[1] - Abs(vals[j + 1] - vals[1])]

\* _values[0] - abs(_values[1 : wl + 1][::-1] - _values[0])
PadLeft(vals, wl) ==
    [j \in 1 .. wl |-> vals[1] - Abs(vals[wl + 2 - j] - vals[1])]

PadRightReplicate(vals, wl) == [j \in 1 .. wl |-> vals[Len(vals)]]

\* _values[-1] + abs(_values[-wl - 1 : -1][::-1] - _values[-1])
PadRight(vals, wl) ==
    [j \in 1 .. wl |->
        vals[Len(vals)] + Abs(vals[Len(vals) - j] - vals[Len(vals)])]

\* np.concatenate((pad_left, _values, pad_right))
Padded(vals, wl) == PadLeft(vals, wl) \o vals \o PadRight(vals, wl)

\* np.convolve(a, v, mode="valid") for Len(a) <= Len(v):
\* out[i] = SUM_m a[m] * v[i + Len(a) - m]
ConvolveValid(a, v) ==
    [i \in 1 .. Len(v) - Len(a) + 1 |->
        SeqSum([m \in 1 .. Len(a) |-> a[m] * v[i + Len(a) - m]])]

\* numerators over coeff_den of the list smooth() returns
SmoothValues(vals, coeff, wl) == ConvolveValid(Reverse(coeff), Padded(vals, wl))

Reset ==
    /\ pc = "constructed"
    /\ \E temp \in Temps :
          /\ SmootherReset(temp)
          /\ fed' = [init |-> temp, xs |-> <<>>]
    /\ ret' = <<>>
    /\ UNCHANGED sensor_vars

Update ==
    /\ pc = "constructed"
    /\ Len(fed.xs) < MaxUpdates
    /\ \E temp \in Temps :
          /\ SmootherUpdate(temp)
          /\ fed' = [fed EXCEPT !.xs = Append(@, temp)]
    /\ ret' = <<>>
    /\ UNCHANGED sensor_vars

Smooth ==
    /\ pc = "constructed"
    /\ ret' = SmoothValues(values, coeff_m, window_length)
    /\ UNCHANGED <<pc, args, frame_length, window_length, coeff_m, coeff_den,
                   values, fed>>
    /\ UNCHANGED sensor_vars

ConstructCore ==
    /\ \E a \in CoreArgs : SmootherInit(a[1], a[2])
    /\ UNCHANGED sensor_vars

Next == ConstructCore \/ Reset \/ Update \/ Smooth

Spec == Init /\ [][Next]_vars

(***************************************************************************)
(* PrinterSensorSmoothed (lines 75-194).  The host creates the sensor for  *)
(* a heater or temperature_sensor section, which calls setup_minmax and    *)
(* setup_callback while the configuration is read; klippy:connect and      *)
(* klippy:ready follow, each once.                                         *)
(***************************************************************************)
\* __init__ (lines 76-103): the defaults of line 83 and the unset sensor of
\* line 90 are the initial state; the timer is registered without a waketime.
PrinterInit ==
    /\ \E a \in SensorArgs : SmootherInit(a[1], a[2])
    /\ timer' = NEVER
    /\ UNCHANGED <<last_temp, min_temp, max_temp, callback_set, source,
                   unsmoothed_sensor, events, now, tick>>

SetupMinmax ==
    /\ pc = "constructed"
    /\ events = <<>>
    /\ \E m \in MinMaxArgs :
          /\ min_temp' = m[1]
          /\ max_temp' = m[2]
    /\ UNCHANGED smoother_vars
    /\ UNCHANGED <<last_temp, callback_set, source, unsmoothed_sensor, events,
                   timer, now, tick>>

SetupCallback ==
    /\ pc = "constructed"
    /\ events = <<>>
    /\ callback_set' = TRUE
    /\ UNCHANGED smoother_vars
    /\ UNCHANGED <<last_temp, min_temp, max_temp, source, unsmoothed_sensor,
                   events, timer, now, tick>>

ReportsTemperatureNoKeyCheck(obj) == obj.get_status

\* hasattr(sensor, "get_status") and "temperature" in sensor.get_status(..)
ReportsTemperature(obj) == obj.get_status /\ obj.temperature

\* _handle_connect (lines 105-116)
HandleConnect ==
    /\ pc = "constructed"
    /\ callback_set
    /\ events = <<>>
    /\ \E obj \in Sources :
          /\ source' = obj
          /\ IF ReportsTemperature(obj)
             THEN /\ unsmoothed_sensor' = "sensor"
                  /\ events' = <<"connect">>
             ELSE /\ UNCHANGED unsmoothed_sensor
                  /\ events' = <<"connect: config_error">>
    /\ UNCHANGED smoother_vars
    /\ UNCHANGED <<last_temp, min_temp, max_temp, callback_set, timer, now,
                   tick>>

\* line 120 raises AttributeError on the unset sensor, before lines 123-129
ReadyProceeds(sensor) == sensor # "None"

\* _handle_ready (lines 118-129)
HandleReady ==
    /\ pc = "constructed"
    /\ Len(events) = 1
    /\ IF ReadyProceeds(unsmoothed_sensor)
       THEN /\ \E temp \in Readings :
                  /\ SmootherReset(temp)
                  /\ fed' = [init |-> temp, xs |-> <<>>]
            /\ timer' = NOW
            /\ events' = Append(events, "ready")
            /\ UNCHANGED ret
       ELSE /\ events' = Append(events, "ready: AttributeError")
            /\ UNCHANGED <<timer, smoother_vars>>
    /\ UNCHANGED <<last_temp, min_temp, max_temp, callback_set, source,
                   unsmoothed_sensor, now, tick>>

\* apply_smoothing (lines 141-143): round(values[-1], 2)
ApplySmoothing(vals, coeff, den, wl) ==
    LET sm == SmoothValues(vals, coeff, wl)
    IN RoundHalfEven(sm[Len(sm)], den)

\* update_temp, lines 149-151: "if temp: self.last_temp = temp"
LastTempAfter(temp, last) == IF temp # 0 THEN temp ELSE last

\* lines 166-183: the calls of invoke_shutdown
Shutdowns(last, lo, hi) ==
    (IF last < lo THEN <<"below minimum">> ELSE <<>>)
        \o (IF last > hi THEN <<"above maximum">> ELSE <<>>)

CallbackCallsUnlessFault(last, shutdowns) ==
    IF shutdowns = <<>> THEN <<last>> ELSE <<>>

\* lines 187-192: temperature_callback(print_time, last_temp), whatever the
\* checks above did
CallbackCalls(last, shutdowns) == <<last>>

\* line 194
NextWake(measured_time) == measured_time + REPORT_TIME

\* _temperature_update_event (lines 161-194), run by the reactor at some
\* eventtime at or after the timer's waketime; measured_time is the clock
\* read of line 188.
TemperatureUpdateEvent ==
    /\ timer # NEVER
    /\ \E late \in 0 .. MaxLatency, d \in 0 .. MaxLatency, temp \in Readings :
          LET eventtime == Max(now, timer) + late
              measured_time == eventtime + d
          IN /\ measured_time <= MaxTime
             /\ IF unsmoothed_sensor = "None" \/ ~callback_set
                THEN \* AttributeError at line 146 or line 190
                     /\ tick' = [NoTick EXCEPT !.n = tick.n + 1,
                                               !.error = "AttributeError",
                                               !.eventtime = eventtime]
                     /\ now' = eventtime
                     /\ UNCHANGED <<last_temp, timer, smoother_vars>>
                ELSE \E smoothed \in {ApplySmoothing(ShiftIn(values, temp),
                                         coeff_m, coeff_den, window_length)} :
                     \E last \in {LastTempAfter(smoothed, last_temp)} :
                     \E shutdowns \in {Shutdowns(last, min_temp, max_temp)} :
                        /\ SmootherUpdate(temp)
                        /\ fed' = [fed EXCEPT !.xs = Append(@, temp)]
                        /\ last_temp' = last
                        /\ now' = measured_time
                        /\ timer' = NextWake(measured_time)
                        /\ tick' = [n |-> tick.n + 1,
                                    error |-> "none",
                                    eventtime |-> eventtime,
                                    smoothed |-> smoothed,
                                    shutdowns |-> shutdowns,
                                    callbacks |-> CallbackCalls(last, shutdowns),
                                    measured_time |-> measured_time,
                                    ret |-> NextWake(measured_time)]
                        /\ UNCHANGED ret
    /\ UNCHANGED <<min_temp, max_temp, callback_set, source,
                   unsmoothed_sensor, events>>

\* get_temp (line 154) and get_status (lines 157-159); last_temp is already
\* rounded to two places
GetTemp == <<last_temp, 0>>
GetStatus == [temperature |-> last_temp]

NextSensor ==
    \/ PrinterInit
    \/ SetupMinmax
    \/ SetupCallback
    \/ HandleConnect
    \/ HandleReady
    \/ TemperatureUpdateEvent

SpecSensor == Init /\ [][NextSensor]_vars

(***************************************************************************)
(* Properties of the window derivation.                                    *)
(***************************************************************************)
\* n = ceil(smooth_time / REPORT_TIME) of the constructor call
CeilN == Ceil(args.smooth_time, REPORT_TIME)

\* C1: whenever construction succeeds, frame_length is odd, is at least
\* order + 2, and window_length is exactly (frame_length - 1) / 2.
C1_WindowOdd ==
    pc = "constructed" =>
        /\ frame_length % 2 = 1
        /\ frame_length >= args.order + 2
        /\ 2 * window_length + 1 = frame_length
        /\ frame_length >= CeilN

\* a successful construction in which the even count n was bumped to n + 1
C1_Witness ==
    /\ pc = "constructed"
    /\ CeilN % 2 = 0
    /\ frame_length = CeilN + 1
    /\ args.order = 2

NothingCreated ==
    /\ frame_length = 0
    /\ values = <<>>
    /\ coeff_m = <<>>

\* C2 as stated: whenever n < order + 2, construction fails and creates
\* neither buffer nor coefficients.
C2_Original ==
    (pc # "start" /\ CeilN < args.order + 2) =>
        (pc = "TypeError" /\ NothingCreated)

\* C2 amended: construction fails, creating nothing, exactly when n <= order,
\* or n = order + 1 with n odd; with n = order + 1 even it succeeds with
\* frame_length = order + 2.
C2_Rejection ==
    pc # "start" =>
        /\ (pc = "TypeError") <=>
              (CeilN <= args.order \/ (CeilN = args.order + 1 /\ CeilN % 2 = 1))
        /\ (pc = "TypeError") => NothingCreated
        /\ (CeilN = args.order + 1 /\ CeilN % 2 = 0) =>
              (pc = "constructed" /\ frame_length = args.order + 2)

\* a rejected construction on the boundary n = order + 1
C2_Witness ==
    /\ pc = "TypeError"
    /\ CeilN = args.order + 1

(***************************************************************************)
(* Properties of the smoother.                                             *)
(***************************************************************************)
\* the last frame_length elements of s
LastN(s, n) == [i \in 1 .. n |-> s[Len(s) - n + i]]

StrictlyIncreasing(s) == \A i \in 1 .. Len(s) - 1 : s[i] < s[i + 1]

StrictlyDecreasing(s) == \A i \in 1 .. Len(s) - 1 : s[i] > s[i + 1]

\* smooth() has returned for the current buffer
Smoothed == pc = "constructed" /\ ret # <<>>

\* the state after reset(a), update(b), smooth() on a filter of length 3
StepCase ==
    /\ Smoothed
    /\ frame_length = 3
    /\ Len(fed.xs) = 1
    /\ fed.init # fed.xs[1]

\* C3 as stated: with frame_length = 3, after reset(a), update(b), a # b, the
\* buffer is [a, a, b] and the last smoothed value lies strictly between a
\* and b.
C3_Original ==
    StepCase =>
        LET a == fed.init
            b == fed.xs[1]
            lo == IF a < b THEN a ELSE b
            hi == IF a < b THEN b ELSE a
        IN /\ values = <<a, a, b>>
           /\ lo * coeff_den < ret[3]
           /\ ret[3] < hi * coeff_den

\* C3 amended: the buffer is [a, a, b]; for a falling step (a > b) the last
\* smoothed value is (2a + b) / 3, strictly between b and a; for a rising
\* step (a < b) it is exactly b, the upper end (20, 25 gives 25).
C3_StepResponse ==
    StepCase =>
        LET a == fed.init
            b == fed.xs[1]
        IN /\ values = <<a, a, b>>
           /\ a > b => /\ 3 * ret[3] = (2 * a + b) * coeff_den
                       /\ b * coeff_den < ret[3]
                       /\ ret[3] < a * coeff_den
           /\ a < b => ret[3] = b * coeff_den

\* reset(20.00), update(25.00), smooth() on a filter of length 3
C3_Witness ==
    /\ StepCase
    /\ fed.init = 2000
    /\ fed.xs = <<2500>>

\* C4: after reset(v), smooth() returns frame_length elements, all equal to v.
C4_ResetConstant ==
    (Smoothed /\ fed.xs = <<>>) =>
        /\ Len(ret) = frame_length
        /\ \A i \in 1 .. Len(ret) : ret[i] = fed.init * coeff_den

\* smooth() right after reset(25.00) on the quadratic five-sample filter
C4_Witness ==
    /\ Smoothed
    /\ fed.xs = <<>>
    /\ fed.init = 2500
    /\ coeff_m = <<-3, 12, 17, 12, -3>>

\* C5: the buffer always has frame_length slots and holds the last
\* frame_length elements of (fill value repeated frame_length times) followed
\* by the updates since, oldest first.
C5_SlidingWindow ==
    pc = "constructed" =>
        /\ Len(values) = frame_length
        /\ values = LastN(Tile(fed.init, frame_length) \o fed.xs, frame_length)

\* more updates than slots: the first update has been pushed out
C5_Witness ==
    /\ pc = "constructed"
    /\ Len(fed.xs) > frame_length
    /\ values = LastN(fed.xs, frame_length)
    /\ values[1] # fed.xs[1]
    /\ StrictlyIncreasing(values)

\* C8 as stated: for a strictly monotonic buffer the padded sequence is
\* monotonic in the same direction across the left and the right junction.
C8_Original ==
    Smoothed =>
        LET p == Padded(values, window_length)
            l == window_length
            r == window_length + frame_length
        IN /\ StrictlyIncreasing(values) => (p[l] <= p[l + 1] /\ p[r] <= p[r + 1])
           /\ StrictlyDecreasing(values) => (p[l] >= p[l + 1] /\ p[r] >= p[r + 1])

\* C8 amended: for a strictly increasing buffer the whole padded sequence is
\* strictly increasing; for a strictly decreasing buffer the left pad lies
\* below the first sample and the right pad above the last, against the trend.
C8_PaddingIncreasing ==
    Smoothed =>
        LET p == Padded(values, window_length)
            l == window_length
            r == window_length + frame_length
        IN /\ Len(p) = frame_length + 2 * window_length
           /\ StrictlyIncreasing(values) => StrictlyIncreasing(p)
           /\ StrictlyDecreasing(values) => (p[l] < p[l + 1] /\ p[r] < p[r + 1])

\* a strictly increasing five-sample buffer, smoothed with two pads a side
C8_Witness ==
    /\ Smoothed
    /\ window_length = 2
    /\ StrictlyIncreasing(values)

(***************************************************************************)
(* Properties of the sensor.                                               *)
(***************************************************************************)
\* a _temperature_update_event has run to its return
Ticked == tick.n > 0 /\ tick.error = "none"

OutOfBounds(temp) == temp < min_temp \/ temp > max_temp

\* C6: on every tick invoke_shutdown is called if and only if the smoothed
\* value computed on that tick (rounded to 2 places) is outside
\* [min_temp, max_temp].
C6_Original ==
    Ticked => ((tick.shutdowns # <<>>) <=> OutOfBounds(tick.smoothed))

\* C7: the current value is 0.0 before the first tick and afterwards is the
\* rounded last smoothed value of the latest tick.
C7_Original ==
    /\ tick.n = 0 => (last_temp = 0 /\ GetTemp[1] = 0 /\ GetStatus.temperature = 0)
    /\ Ticked => /\ last_temp = tick.smoothed
                 /\ GetTemp[1] = tick.smoothed
                 /\ GetStatus.temperature = tick.smoothed

\* Active: the update timer has been armed
Active == timer # NEVER

\* C9: a tick runs (reads the source, updates the smoother) only after
\* connect accepted a source that reports a temperature and ready then reset
\* the smoother from a reading; a source without a temperature fails connect
\* with a configuration error, leaves the sensor unset, and the timer is
\* never armed.
C9_Lifecycle ==
    /\ (Active \/ tick.n > 0) =>
          /\ events = <<"connect", "ready">>
          /\ unsmoothed_sensor = "sensor"
          /\ source.get_status /\ source.temperature
          /\ tick.error = "none"
          /\ fed.init \in Readings
          /\ Len(fed.xs) = tick.n
          /\ values = LastN(Tile(fed.init, frame_length) \o fed.xs, frame_length)
    /\ (source.looked_up /\ ~(source.get_status /\ source.temperature)) =>
          /\ events[1] = "connect: config_error"
          /\ unsmoothed_sensor = "None"
          /\ ~Active
          /\ tick.n = 0
    /\ ("ready" \in {events[i] : i \in 1 .. Len(events)}) =>
          (Len(events) = 2 /\ events[1] = "connect")

\* two ticks have run after connect and ready
C9_Witness ==
    /\ tick.n = 2
    /\ events = <<"connect", "ready">>
    /\ fed.init = 2000

\* C10 as stated: every tick calls the reporting callback once with the
\* current value and returns eventtime + REPORT_TIME.
C10_Original ==
    Ticked =>
        /\ tick.callbacks = <<last_temp>>
        /\ tick.ret = tick.eventtime + REPORT_TIME

\* C10 amended: every tick calls the reporting callback once with the
\* current value, fault or not, and returns measured_time + REPORT_TIME,
\* measured_time being the clock read after the checks, at or after
\* eventtime; the timer stays armed at that time.
C10_Rearm ==
    Ticked =>
        /\ tick.callbacks = <<last_temp>>
        /\ tick.measured_time >= tick.eventtime
        /\ tick.ret = tick.measured_time + REPORT_TIME
        /\ tick.ret >= tick.eventtime + REPORT_TIME
        /\ timer = tick.ret
        /\ Active

\* a tick that signalled a fault, still reported, and read the clock late
C10_Witness ==
    /\ Ticked
    /\ tick.shutdowns # <<>>
    /\ tick.callbacks = <<last_temp>>
    /\ tick.measured_time > tick.eventtime

====
